---- MODULE Spec2Model ----
(***************************************************************************)
(* Model of the e-Paper hardware abstraction layer (epdconfig.py) and of   *)
(* the partial-refresh probe scripts (partial_probe_v2.py,                 *)
(* partial_test.py).                                                       *)
(*                                                                         *)
(* Part 1: the three bus backends (RaspberryPi, JetsonNano, SunriseX3),    *)
(*         their module_init / module_exit and the GPIO / SPI calls they   *)
(*         issue, in order, with hardware calls that may raise.            *)
(* Part 2: the call-shape dispatchers call_partial_window and              *)
(*         call_partial_fullframe.                                         *)
(* Part 3: the sessions (main of both scripts) as step machines over the   *)
(*         vendor driver's entry points.                                   *)
(* Part 4: the alignment helpers align8 / up8 and the region extractor     *)
(*         extract_region_bytes, as functions applied to drawn inputs.     *)
(* Part 5: the bus primitives (spi_writebyte, spi_writebyte2,              *)
(*         digital_write, digital_read) of an initialised backend.         *)
(* Part 6: the platform selection run at import of epdconfig.              *)
(***************************************************************************)
EXTENDS Integers, Sequences, FiniteSets, TLC

VARIABLES
    backend,        \* which class `implementation` is an instance of
    pinMode,        \* GPIO library: channel -> "unset" | "out" | "in"
    pinLevel,       \* level driven on each pin (0 when released)
    spiOpen,        \* the SPI handle / software SPI is open
    gpio_inited,    \* RaspberryPi._gpio_inited
    spi_inited,     \* RaspberryPi._spi_inited
    Flag,           \* SunriseX3.Flag
    DEV_SPI,        \* RaspberryPi.DEV_SPI is a loaded library (not None)
    hwlog,          \* hardware calls issued by the last backend call, in order
    lastCall,       \* the last backend call and how it ended
    prevCall,       \* the backend call before it
    prev2Init,      \* the call before prevCall was a module_init that returned
    \* --- the dispatchers (partial_probe_v2.py) ---
    W, H,           \* epd.width, epd.height
    rect,           \* the window <<x0, y0, x1, y1>> (x bounds 8-aligned)
    rep,            \* sequence representation of region_bytes: "list" | "bytes"
    accepts,        \* the argument tuples the partial entry point's signature takes
    dname,          \* the dispatcher last called
    dcalls,         \* its calls to the entry point, in order, with their outcome
    dret,           \* "True" | "False" | "raised" (an exception left it)
    pname, pcalls, pret,  \* the same for the dispatch before it
    \* --- the sessions (main of partial_probe_v2.py and of partial_test.py) ---
    script,         \* "probe" | "test": whose main runs
    pc,             \* the driver call main is about to make
    iter,           \* loop index i (probe), lines rendered so far (test)
    has_init_fast,  \* hasattr(epd, "init_fast")
    has_Clear,      \* hasattr(epd, "Clear")
    base_name,      \* find_partial found a base-image method
    part_name,      \* find_partial found a partial method / epd has display_Partial
    ended,          \* "running" | "returned" | "raised" | "interrupted"
    sleeps,         \* calls of epd.sleep() so far
    owed,           \* a partial attempt for a frame was rejected and display()
                    \* of that frame has not been called since
    faulted,        \* an update (display or partial call) raised a hardware fault
    afterFault,     \* a display or partial call was issued after such a fault
    reached,        \* the calls that have returned, of "init" (init_fast() /
                    \* init()) and "base" (display(base_buf))
    \* --- the region extractor and the alignment helpers ---
    fullbuf,        \* the packed frame, (W / 8) * H bytes, row-major
    raw_box,        \* the box <<x0, y0, x1, y1>> before alignment
    region_bytes,   \* what extract_region_bytes returned
    xstep,          \* "idle" | "input" | "aligned" | "extracted" | "helper" | "helped"
    xarg,           \* the integer handed to align8 / up8
    xres,           \* the values align8 / up8 returned for it
    \* --- the bus primitives ---
    bus,            \* the bytes clocked out on MOSI so far, in order
    sent,           \* the arguments of the write calls so far, concatenated
    busy_line,      \* the level the panel drives on BUSY
    rd,             \* the last digital_read: its pin, its result, and the
                    \* level that was on that pin
    \* --- the platform selection (import of epdconfig) ---
    cpuinfo_raspberry,  \* /proc/cpuinfo has a line with "Raspberry"
    gpio_x3_exists,     \* /sys/bus/platform/drivers/gpio-x3 exists
    ctor_ok,            \* the constructor of the chosen class returns
    imports,            \* times the selection has bound an instance
    import_exc,         \* class of the exception the last import raised
                        \* ("none": it raised nothing)
    bound               \* module-level name -> class of the instance it is
                        \* bound to ("none": not bound)

bvars == <<backend, pinMode, pinLevel, spiOpen, gpio_inited, spi_inited,
           Flag, DEV_SPI, hwlog, lastCall, prevCall, prev2Init>>

dvars == <<W, H, rect, rep, accepts, dname, dcalls, dret, pname, pcalls, pret>>

svars == <<script, pc, iter, has_init_fast, has_Clear, base_name, part_name,
           ended, sleeps, owed, faulted, afterFault, reached>>

xvars == <<fullbuf, raw_box, region_bytes, xstep, xarg, xres>>

uvars == <<bus, sent, busy_line, rd>>

mvars == <<cpuinfo_raspberry, gpio_x3_exists, ctor_ok, imports, import_exc,
           bound>>

vars == <<bvars, dvars, svars, xvars, uvars, mvars>>

(***************************************************************************)
(* Bounds                                                                  *)
(***************************************************************************)
\* hardware calls that raise an I/O error within one backend call
MaxFaults == 1

\* lines the user types into the live word processor before end of input
MaxLines == 2

(***************************************************************************)
(* Part 1: bus backends                                                    *)
(***************************************************************************)
Backends == {"RaspberryPi", "JetsonNano", "SunriseX3"}

\* RST_PIN, DC_PIN, CS_PIN, BUSY_PIN, PWR_PIN (the same BCM numbers in the
\* three classes; the model names the pins instead of numbering them)
Pins == {"RST", "DC", "CS", "BUSY", "PWR"}

NoPin == "-"

\* one call into the GPIO / SPI library
HwOp(name, pin, dir, val, pins) ==
    [name |-> name, pin |-> pin, dir |-> dir, val |-> val, pins |-> pins]

OpSetwarnings   == HwOp("setwarnings", NoPin, "-", 0, {})
OpSetmode       == HwOp("setmode", NoPin, "-", 0, {})
\* GPIO.setup(pin, OUT, initial=v); val = -1 when no initial level is given
OpSetupOut(p, v) == HwOp("setup", p, "out", v, {})
OpSetupIn(p)    == HwOp("setup", p, "in", -1, {})
OpOutput(p, v)  == HwOp("output", p, "-", v, {})
OpCleanup(ps)   == HwOp("cleanup", NoPin, "-", 0, ps)
OpCleanupAll    == HwOp("cleanup_all", NoPin, "-", 0, Pins)
\* SunriseX3: GPIO.cleanup(list, PWR_PIN), a call with two positional
\* arguments.  Whether the library takes the second one is not decided by
\* this repository: the call either releases the listed channels or raises
\* (it is then one of the calls in F).
OpCleanup2(ps)  == HwOp("cleanup2", NoPin, "-", 0, ps)
OpSpiOpen       == HwOp("spi_open", NoPin, "-", 0, {})
OpSpiSpeed      == HwOp("spi_max_speed_hz", NoPin, "-", 0, {})
OpSpiMode       == HwOp("spi_mode", NoPin, "-", 0, {})
OpSpiNoCs       == HwOp("spi_no_cs", NoPin, "-", 0, {})
OpSpiClose      == HwOp("spi_close", NoPin, "-", 0, {})
OpSoLoad        == HwOp("CDLL", NoPin, "-", 0, {})
OpDevModuleInit == HwOp("DEV_Module_Init", NoPin, "-", 0, {})

\* The GPIO library's contract: output() on a channel that is not set up as
\* an output raises RuntimeError (RPi.GPIO, Jetson.GPIO, Hobot.GPIO).
LibRaises(s, op) ==
    op.name = "output" /\ s.mode[op.pin] # "out"

\* The effect of a hardware call that does not raise.
Effect(s, op) ==
    CASE op.name = "setup" ->
            [s EXCEPT !.mode[op.pin] = op.dir,
                      !.level[op.pin] = IF op.val >= 0 THEN op.val ELSE @]
      [] op.name = "output" ->
            [s EXCEPT !.level[op.pin] = op.val]
      [] op.name \in {"cleanup", "cleanup2", "cleanup_all"} ->
            [s EXCEPT !.mode = [p \in Pins |-> IF p \in op.pins THEN "unset" ELSE @[p]],
                      !.level = [p \in Pins |-> IF p \in op.pins THEN 0 ELSE @[p]]]
      [] op.name = "spi_open" -> [s EXCEPT !.spi = TRUE]
      [] op.name = "spi_close" -> [s EXCEPT !.spi = FALSE]
      [] OTHER -> s

\* One statement that calls the hardware.  F is the set of calls that raise
\* an I/O error in this run; a pending exception skips the statement.
Do(s, op, F) ==
    IF s.raised THEN s
    ELSE IF op \in F
         THEN [s EXCEPT !.log = Append(@, [op |-> op, out |-> "io"]),
                        !.raised = TRUE]
    ELSE IF LibRaises(s, op)
         THEN [s EXCEPT !.log = Append(@, [op |-> op, out |-> "lib"]),
                        !.raised = TRUE]
    ELSE [Effect(s, op) EXCEPT !.log = Append(@, [op |-> op, out |-> "ok"])]

RECURSIVE DoAll(_, _, _)
DoAll(s, ops, F) ==
    IF ops = <<>> THEN s ELSE DoAll(Do(s, Head(ops), F), Tail(ops), F)

\* An assignment to an attribute: skipped by a pending exception.
Set(s, t) == IF s.raised THEN s ELSE t

\* except Exception: pass
Swallow(s) == [s EXCEPT !.raised = FALSE]

\* raise RuntimeError(...)
Raise(s) == [s EXCEPT !.raised = TRUE]

---------------------------------------------------------------------------
\* RaspberryPi._gpio_setup_basic
RPi_gpio_setup_basic(s, F) ==
    IF s.raised \/ s.gpio_inited THEN s
    ELSE LET t == DoAll(s, <<OpSetwarnings, OpSetmode,
                             OpSetupOut("RST", 1), OpSetupOut("DC", 0),
                             OpSetupOut("PWR", 0), OpSetupOut("CS", 1),
                             OpSetupIn("BUSY")>>, F)
         IN Set(t, [t EXCEPT !.gpio_inited = TRUE])

\* RaspberryPi._spi_open
RPi_spi_open(s, F) ==
    IF s.raised \/ s.spi_inited THEN s
    ELSE LET t == DoAll(s, <<OpSpiOpen, OpSpiSpeed, OpSpiMode>>, F)
             u == IF t.raised THEN t ELSE Swallow(Do(t, OpSpiNoCs, F))
         IN Set(u, [u EXCEPT !.spi_inited = TRUE])

\* RaspberryPi.module_init(cleanup); soPresent: DEV_Config_xx.so exists in
\* one of find_dirs; soHasInit: the library exports DEV_Module_Init
RPi_module_init(s, cleanup, soPresent, soHasInit, F) ==
    LET s1 == RPi_gpio_setup_basic(s, F)
        s2 == IF ~cleanup THEN RPi_spi_open(s1, F)
              ELSE LET a == Set(s1, [s1 EXCEPT !.dev_spi = FALSE])
                       b == IF soPresent
                            THEN LET l == Do(a, OpSoLoad, F)
                                 IN Set(l, [l EXCEPT !.dev_spi = TRUE])
                            ELSE a
                       c == IF ~b.raised /\ ~b.dev_spi THEN Raise(b) ELSE b
                       d == RPi_spi_open(c, F)
                   IN IF soHasInit THEN Do(d, OpDevModuleInit, F) ELSE d
    IN Do(s2, OpOutput("PWR", 1), F)

\* RaspberryPi.module_exit(cleanup)
RPi_module_exit(s, cleanup, F) ==
    LET s1 == IF s.spi_inited THEN Swallow(Do(s, OpSpiClose, F)) ELSE s
        s2 == Swallow(DoAll(s1, <<OpOutput("RST", 0), OpOutput("DC", 0),
                                  OpOutput("PWR", 0)>>, F))
        s3 == IF cleanup /\ s2.gpio_inited
              THEN LET t == Do(s2, OpCleanup({"RST", "DC", "BUSY", "PWR"}), F)
                   IN IF t.raised THEN Do(Swallow(t), OpCleanupAll, F) ELSE t
              ELSE s2
    IN Set(s3, [s3 EXCEPT !.spi_inited = FALSE, !.gpio_inited = FALSE])

---------------------------------------------------------------------------
\* JetsonNano.module_init
Jetson_module_init(s, F) ==
    DoAll(s, <<OpSetmode, OpSetwarnings,
               OpSetupOut("RST", -1), OpSetupOut("DC", -1),
               OpSetupOut("CS", -1), OpSetupOut("PWR", -1),
               OpSetupIn("BUSY"), OpOutput("PWR", 1), OpSpiOpen>>, F)

\* JetsonNano.module_exit
Jetson_module_exit(s, F) ==
    DoAll(s, <<OpSpiClose, OpOutput("RST", 0), OpOutput("DC", 0),
               OpOutput("PWR", 0), OpCleanup(Pins)>>, F)

---------------------------------------------------------------------------
\* SunriseX3.module_init
X3_module_init(s, F) ==
    IF s.Flag = 0
    THEN DoAll([s EXCEPT !.Flag = 1],
               <<OpSetmode, OpSetwarnings,
                 OpSetupOut("RST", -1), OpSetupOut("DC", -1),
                 OpSetupOut("CS", -1), OpSetupOut("PWR", -1),
                 OpSetupIn("BUSY"), OpOutput("PWR", 1),
                 OpSpiOpen, OpSpiSpeed, OpSpiMode>>, F)
    ELSE s

\* Flag stays 1 across module_exit
X3_module_exit_keepsFlag(s, F) ==
    DoAll(s, <<OpSpiClose, OpOutput("RST", 0), OpOutput("DC", 0),
               OpOutput("PWR", 0), OpCleanup2({"RST", "DC", "CS", "BUSY"})>>, F)

\* SunriseX3.module_exit
X3_module_exit(s, F) ==
    LET s1 == Do(s, OpSpiClose, F)
        s2 == Set(s1, [s1 EXCEPT !.Flag = 0])
    IN DoAll(s2, <<OpOutput("RST", 0), OpOutput("DC", 0), OpOutput("PWR", 0),
                   OpCleanup2({"RST", "DC", "CS", "BUSY"})>>, F)

---------------------------------------------------------------------------
\* The hardware calls module_init of each backend can issue: the calls an
\* I/O error can hit.
InitOps(b) ==
    CASE b = "RaspberryPi" ->
            {OpSetwarnings, OpSetmode, OpSetupOut("RST", 1), OpSetupOut("DC", 0),
             OpSetupOut("PWR", 0), OpSetupOut("CS", 1), OpSetupIn("BUSY"),
             OpSpiOpen, OpSpiSpeed, OpSpiMode, OpSpiNoCs, OpSoLoad,
             OpDevModuleInit, OpOutput("PWR", 1)}
      [] b = "JetsonNano" ->
            {OpSetmode, OpSetwarnings, OpSetupOut("RST", -1), OpSetupOut("DC", -1),
             OpSetupOut("CS", -1), OpSetupOut("PWR", -1), OpSetupIn("BUSY"),
             OpOutput("PWR", 1), OpSpiOpen}
      [] b = "SunriseX3" ->
            {OpSetmode, OpSetwarnings, OpSetupOut("RST", -1), OpSetupOut("DC", -1),
             OpSetupOut("CS", -1), OpSetupOut("PWR", -1), OpSetupIn("BUSY"),
             OpOutput("PWR", 1), OpSpiOpen, OpSpiSpeed, OpSpiMode}

\* The hardware calls module_exit of each backend can issue.
ExitOps(b) ==
    CASE b = "RaspberryPi" ->
            {OpSpiClose, OpOutput("RST", 0), OpOutput("DC", 0), OpOutput("PWR", 0),
             OpCleanup({"RST", "DC", "BUSY", "PWR"}), OpCleanupAll}
      [] b = "JetsonNano" ->
            {OpSpiClose, OpOutput("RST", 0), OpOutput("DC", 0),
             OpOutput("PWR", 0), OpCleanup(Pins)}
      [] b = "SunriseX3" ->
            {OpSpiClose, OpOutput("RST", 0), OpOutput("DC", 0), OpOutput("PWR", 0),
             OpCleanup2({"RST", "DC", "CS", "BUSY"})}

\* the sets of at most n calls out of ops
RECURSIVE UpTo(_, _)
UpTo(ops, n) ==
    IF n = 0 THEN {{}}
    ELSE LET S == UpTo(ops, n - 1)
         IN S \cup {F \cup {o} : F \in S, o \in ops}

\* the hardware calls that raise an I/O error during one backend call
FaultSets(ops) == UpTo(ops, MaxFaults)

\* the backend's state as one record, with an empty log and no exception
Cur ==
    [mode |-> pinMode, level |-> pinLevel, spi |-> spiOpen,
     gpio_inited |-> gpio_inited, spi_inited |-> spi_inited, Flag |-> Flag,
     dev_spi |-> DEV_SPI, log |-> <<>>, raised |-> FALSE]

\* store the state a call ends in
Commit(t, name, cleanup) ==
    /\ pinMode' = t.mode
    /\ pinLevel' = t.level
    /\ spiOpen' = t.spi
    /\ gpio_inited' = t.gpio_inited
    /\ spi_inited' = t.spi_inited
    /\ Flag' = t.Flag
    /\ DEV_SPI' = t.dev_spi
    /\ hwlog' = t.log
    /\ prev2Init' = (prevCall.name = "module_init" /\ prevCall.ret = "ok")
    /\ prevCall' = lastCall
    /\ lastCall' = [name |-> name, cleanup |-> cleanup,
                    ret |-> IF t.raised THEN "raised" ELSE "ok",
                    io |-> \E i \in 1..Len(t.log) : t.log[i].out = "io"]
    /\ UNCHANGED <<backend, dvars, svars, xvars, uvars, mvars>>

\* ret: "ok" when the call returned, "raised" when an exception left it;
\* io: one of its hardware calls raised an I/O error
NoCall == [name |-> "none", cleanup |-> FALSE, ret |-> "ok", io |-> FALSE]

\* after the module-level selection has constructed `implementation`
InitBackend ==
    /\ backend \in Backends
    /\ pinMode = [p \in Pins |-> "unset"]
    /\ pinLevel = [p \in Pins |-> 0]
    /\ spiOpen = FALSE
    /\ gpio_inited = FALSE
    /\ spi_inited = FALSE
    /\ Flag = 0
    /\ DEV_SPI = FALSE
    /\ hwlog = <<>>
    /\ lastCall = NoCall
    /\ prevCall = NoCall
    /\ prev2Init = FALSE

\* module_init() in which the calls of one F out of FS raise
InitCall(FS) ==
    \E F \in FS :
        \/ /\ backend = "RaspberryPi"
           /\ \E cleanup \in BOOLEAN, soPresent \in BOOLEAN, soHasInit \in BOOLEAN :
                /\ (~cleanup => ~soPresent)
                /\ (~soPresent => ~soHasInit)
                /\ LET t == RPi_module_init(Cur, cleanup, soPresent, soHasInit, F)
                   IN Commit(t, "module_init", cleanup)
        \/ /\ backend = "JetsonNano"
           /\ LET t == Jetson_module_init(Cur, F)
              IN Commit(t, "module_init", FALSE)
        \/ /\ backend = "SunriseX3"
           /\ LET t == X3_module_init(Cur, F)
              IN Commit(t, "module_init", FALSE)

module_init == InitCall(FaultSets(InitOps(backend)))

\* module_exit() in which the calls of one F out of FS raise
ExitCall(FS) ==
    \E F \in FS :
        \/ /\ backend = "RaspberryPi"
           /\ \E cleanup \in BOOLEAN :
                LET t == RPi_module_exit(Cur, cleanup, F)
                IN Commit(t, "module_exit", cleanup)
        \/ /\ backend = "JetsonNano"
           /\ LET t == Jetson_module_exit(Cur, F)
              IN Commit(t, "module_exit", FALSE)
        \/ /\ backend = "SunriseX3"
           /\ LET t == X3_module_exit(Cur, F)
              IN Commit(t, "module_exit", FALSE)

module_exit == ExitCall(FaultSets(ExitOps(backend)))

---------------------------------------------------------------------------
\* Reading the log of the last backend call
Attempted(op) == \E i \in 1..Len(hwlog) : hwlog[i].op = op

Succeeded(op) == \E i \in 1..Len(hwlog) : hwlog[i].op = op /\ hwlog[i].out = "ok"

Failed(op) == \E i \in 1..Len(hwlog) : hwlog[i].op = op /\ hwlog[i].out # "ok"

IssuedNamed(names) == \E i \in 1..Len(hwlog) : hwlog[i].op.name \in names

InitReturned(c) == c.name = "module_init" /\ c.ret = "ok"

ControlPins == {"RST", "DC", "PWR"}

\* C1: in module_init PWR_PIN is driven HIGH only after the configuration of
\* all panel pins, and once module_init has returned the SPI bus is open, so
\* that a spi_writebyte issued then cannot reach an unopened bus.
C1_PowerAfterConfigAndSpiOpen ==
    InitReturned(lastCall) =>
        /\ \A i \in 1..Len(hwlog) :
              hwlog[i].op = OpOutput("PWR", 1) =>
                 /\ \A j \in (i + 1)..Len(hwlog) : hwlog[j].op.name # "setup"
                 /\ \A p \in Pins : pinMode[p] # "unset"
        /\ spiOpen

\* C2: a second module_init on an initialised backend, with no module_exit in
\* between, configures no GPIO and opens no SPI bus again, and returns 0.
C2_SecondInitIsNoOp ==
    (InitReturned(prevCall) /\ lastCall.name = "module_init" /\ ~lastCall.io) =>
        /\ lastCall.ret = "ok"
        /\ ~IssuedNamed({"setmode", "setup", "spi_open"})

\* C3: in module_exit a failing SPI close does not keep RST, DC and PWR from
\* being driven low, and a failing GPIO write does not keep the SPI close
\* from being attempted.
C3_TeardownHalvesIsolated ==
    (InitReturned(prevCall) /\ lastCall.name = "module_exit") =>
        /\ Failed(OpSpiClose) => \A p \in ControlPins : Attempted(OpOutput(p, 0))
        /\ (\E p \in ControlPins : Failed(OpOutput(p, 0))) => Attempted(OpSpiClose)

\* C4: after a successful module_init, two module_exit calls in succession
\* raise no exception and each leaves RST, DC and PWR low / off.
C4_ExitTwiceIsQuiet ==
    /\ (InitReturned(prevCall) /\ lastCall.name = "module_exit" /\ ~lastCall.io) =>
          /\ lastCall.ret = "ok"
          /\ \A p \in ControlPins : pinLevel[p] = 0
    /\ (/\ prev2Init
        /\ prevCall.name = "module_exit" /\ ~prevCall.io /\ prevCall.ret = "ok"
        /\ lastCall.name = "module_exit" /\ ~lastCall.io) =>
          /\ lastCall.ret = "ok"
          /\ \A p \in ControlPins : pinLevel[p] = 0

(***************************************************************************)
(* Part 2: call-shape dispatch (partial_probe_v2.py)                       *)
(***************************************************************************)
\* panel geometries <<W, H>> with W % 8 = 0
Geoms == {<<16, 2>>}

Reps == {"list", "bytes"}

\* the windows inside a W x H panel with 8-aligned x bounds
Rects(w, h) ==
    LET XA == {x \in 0..w : x % 8 = 0}
    IN {r \in XA \X (0..h) \X XA \X (0..h) : r[1] < r[3] /\ r[2] < r[4]}

\* a positional argument list fn(*args): the byte payload and the integers
CallArgs(buf, r, coords) == [buf |-> buf, rep |-> r, coords |-> coords]

\* [*region_bytes]: a new list with the same elements
ListCopy(r) == "list"

\* call_partial_window with the width/height shape tried first
WindowTries_whFirst(r, x0, y0, x1, y1) ==
    << CallArgs("region", r, <<x0, y0, x1 - x0, y1 - y0>>),
       CallArgs("region", r, <<x0, y0, x1, y1>>),
       CallArgs("region", ListCopy(r), <<x0, y0, x1, y1>>) >>

\* call_partial_window: tries
WindowTries(r, x0, y0, x1, y1) ==
    << CallArgs("region", r, <<x0, y0, x1, y1>>),
       CallArgs("region", r, <<x0, y0, x1 - x0, y1 - y0>>),
       CallArgs("region", ListCopy(r), <<x0, y0, x1, y1>>) >>

\* call_partial_fullframe: tries; fullbuf is what epd.getbuffer returned
FullframeTries(w, h) ==
    << CallArgs("fullbuf", "buffer", <<0, 0, w, h>>),
       CallArgs("fullbuf", "buffer", <<>>) >>

\* fn(*args): TypeError when the signature does not take args; otherwise the
\* driver runs and either returns or raises another exception (fault)
CallFn(acc, args, fault) ==
    IF args \notin acc THEN "TypeError"
    ELSE IF fault THEN "fault" ELSE "ok"

\* the retry loop with `except Exception: continue` in place of
\* `except TypeError: continue`
RECURSIVE RunTries_exceptAll(_, _, _, _)
RunTries_exceptAll(tries, acc, fault, calls) ==
    IF tries = <<>> THEN [calls |-> calls, ret |-> "False"]
    ELSE LET out  == CallFn(acc, Head(tries), fault)
             done == Append(calls, [args |-> Head(tries), out |-> out])
         IN CASE out = "ok" -> [calls |-> done, ret |-> "True"]
              [] OTHER -> RunTries_exceptAll(Tail(tries), acc, fault, done)

\* for args in tries: try: fn(*args); return True
\*                    except TypeError: continue
\* return False
RECURSIVE RunTries(_, _, _, _)
RunTries(tries, acc, fault, calls) ==
    IF tries = <<>> THEN [calls |-> calls, ret |-> "False"]
    ELSE LET out  == CallFn(acc, Head(tries), fault)
             done == Append(calls, [args |-> Head(tries), out |-> out])
         IN CASE out = "ok" -> [calls |-> done, ret |-> "True"]
              [] out = "TypeError" -> RunTries(Tail(tries), acc, fault, done)
              [] OTHER -> [calls |-> done, ret |-> "raised"]

\* every argument tuple the two dispatchers can pass for this window
PossibleArgs(w, h, rc, r) ==
    {WindowTries(r, rc[1], rc[2], rc[3], rc[4])[i] : i \in 1..3}
       \cup {FullframeTries(w, h)[i] : i \in 1..2}

IdleDispatch ==
    /\ W = 0 /\ H = 0 /\ rect = <<0, 0, 0, 0>> /\ rep = "list" /\ accepts = {}
    /\ dname = "none" /\ dcalls = <<>> /\ dret = "none"
    /\ pname = "none" /\ pcalls = <<>> /\ pret = "none"

InitDispatch ==
    /\ \E g \in Geoms : W = g[1] /\ H = g[2]
    /\ rect \in Rects(W, H)
    /\ rep \in Reps
    /\ accepts \in SUBSET PossibleArgs(W, H, rect, rep)
    /\ dname = "none" /\ dcalls = <<>> /\ dret = "none"
    /\ pname = "none" /\ pcalls = <<>> /\ pret = "none"

Dispatched(name, res) ==
    /\ pname' = dname /\ pcalls' = dcalls /\ pret' = dret
    /\ dname' = name /\ dcalls' = res.calls /\ dret' = res.ret
    /\ UNCHANGED <<W, H, rect, rep, accepts, bvars, svars, xvars, uvars,
                 mvars>>

\* call_partial_window(epd, method_name, region_bytes, x0, y0, x1, y1)
call_partial_window ==
    \E fault \in BOOLEAN :
        Dispatched("call_partial_window",
                   RunTries(WindowTries(rep, rect[1], rect[2], rect[3], rect[4]),
                            accepts, fault, <<>>))

\* call_partial_fullframe(epd, method_name, fullbuf, W, H)
call_partial_fullframe ==
    \E fault \in BOOLEAN :
        Dispatched("call_partial_fullframe",
                   RunTries(FullframeTries(W, H), accepts, fault, <<>>))

---------------------------------------------------------------------------
WindowDispatched == dname = "call_partial_window"

FullframeDispatched == dname = "call_partial_fullframe"

LastOut(calls) == calls[Len(calls)].out

\* C5: once a dispatch to the entry point has succeeded with some shape, the
\* next dispatch to it makes one call only, with that shape (no re-probing);
\* with an entry point that takes only the width/height shape the first
\* dispatch makes a mismatching and a successful call, the second one call.
C5_BoundShapeReused ==
    (dname # "none" /\ pname = dname /\ pret = "True" /\ dret = "True") =>
        /\ Len(dcalls) = 1
        /\ dcalls[1].args = pcalls[Len(pcalls)].args

\* C6: a dispatch tries the call shapes in the fixed order, each at most
\* once, goes on only after a signature mismatch, returns True right after
\* the first accepted call and False only after all shapes mismatched.
C6_FixedOrderFirstAccepted ==
    LET expected ==
            IF WindowDispatched
            THEN << [buf |-> "region", rep |-> rep, coords |-> rect],
                    [buf |-> "region", rep |-> rep,
                     coords |-> <<rect[1], rect[2], rect[3] - rect[1], rect[4] - rect[2]>>],
                    [buf |-> "region", rep |-> "list", coords |-> rect] >>
            ELSE << [buf |-> "fullbuf", rep |-> "buffer", coords |-> <<0, 0, W, H>>],
                    [buf |-> "fullbuf", rep |-> "buffer", coords |-> <<>>] >>
    IN dname # "none" =>
        /\ Len(dcalls) >= 1 /\ Len(dcalls) <= Len(expected)
        /\ \A i \in 1..Len(dcalls) : dcalls[i].args = expected[i]
        /\ \A i \in 1..(Len(dcalls) - 1) : dcalls[i].out = "TypeError"
        /\ (dret = "True") = (LastOut(dcalls) = "ok")
        /\ (dret = "False") =
              (Len(dcalls) = Len(expected)
                 /\ \A i \in 1..Len(dcalls) : dcalls[i].out = "TypeError")

\* a window dispatch that was accepted at its second shape
C6_Witness ==
    /\ WindowDispatched /\ dret = "True" /\ Len(dcalls) = 2
    /\ dcalls[1].out = "TypeError"

\* C7: an exception of the entry point that is not a signature mismatch
\* leaves the dispatch at once: it is the last call made and the dispatch
\* raises; no later shape is attempted.
C7_FaultPropagates ==
    dname # "none" =>
        /\ \A i \in 1..Len(dcalls) :
              dcalls[i].out = "fault" => i = Len(dcalls) /\ dret = "raised"
        /\ dret = "raised" => LastOut(dcalls) = "fault"

\* a fault on a shape that is not the last one of the list
C7_Witness ==
    /\ WindowDispatched /\ dret = "raised"
    /\ Len(dcalls) < 3 /\ LastOut(dcalls) = "fault"

(***************************************************************************)
(* Part 3: the sessions.  One step per call into the vendor driver; a      *)
(* driver call returns, or raises an exception (fault).  KeyboardInterrupt *)
(* arrives between two driver calls.                                       *)
(***************************************************************************)
IdleSession ==
    /\ script = "none" /\ pc = "done" /\ iter = 0
    /\ has_init_fast = FALSE /\ has_Clear = FALSE
    /\ base_name = FALSE /\ part_name = FALSE
    /\ ended = "returned" /\ sleeps = 0
    /\ owed = FALSE /\ faulted = FALSE /\ afterFault = FALSE
    /\ reached = {}

\* epd = driver.EPD() has been constructed; main is about to initialise it
InitSession ==
    /\ script \in {"probe", "test"}
    /\ pc = "init" /\ iter = 0
    /\ has_init_fast \in BOOLEAN /\ has_Clear \in BOOLEAN
    /\ base_name \in BOOLEAN /\ part_name \in BOOLEAN
    /\ (script = "test" => ~base_name)
    /\ ended = "running" /\ sleeps = 0
    /\ owed = FALSE /\ faulted = FALSE /\ afterFault = FALSE
    /\ reached = {}

Running(at) == ended = "running" /\ pc = at

\* main returns, or an exception leaves it
End(how) == pc' = "done" /\ ended' = how

\* no dispatcher is called in this step
NoDispatch == UNCHANGED <<dname, dcalls, dret, pname, pcalls, pret>>

SessionFrame ==
    UNCHANGED <<bvars, W, H, rect, rep, accepts, script,
                has_init_fast, has_Clear, part_name, xvars, uvars, mvars>>

\* a call of display() or of the partial entry point is issued
UpdateIssued == afterFault' = (afterFault \/ faulted)

\* main goes back to the base frame after epd.sleep()
CallSleep_goesOn(fault) ==
    /\ sleeps' = sleeps + 1
    /\ IF fault THEN End("raised")
       ELSE pc' = "base_getbuffer" /\ UNCHANGED ended

\* epd.sleep()
CallSleep(fault) ==
    /\ sleeps' = sleeps + 1
    /\ End(IF fault THEN "raised" ELSE "returned")

\* epd.init_fast() / epd.init()   (both mains)
s_init ==
    /\ Running("init")
    /\ \E fault \in BOOLEAN :
         IF fault THEN End("raised") /\ UNCHANGED reached
         ELSE /\ pc' = IF has_Clear THEN "Clear" ELSE "base_getbuffer"
              /\ reached' = reached \cup {"init"}
              /\ UNCHANGED ended
    /\ NoDispatch /\ SessionFrame
    /\ UNCHANGED <<iter, base_name, sleeps, owed, faulted, afterFault>>

\* epd.Clear()   (both mains)
s_Clear ==
    /\ Running("Clear")
    /\ \E fault \in BOOLEAN :
         IF fault THEN End("raised")
         ELSE pc' = "base_getbuffer" /\ UNCHANGED ended
    /\ NoDispatch /\ SessionFrame /\ UNCHANGED reached
    /\ UNCHANGED <<iter, base_name, sleeps, owed, faulted, afterFault>>

\* base_buf = epd.getbuffer(base_img)   (both mains)
s_base_getbuffer ==
    /\ Running("base_getbuffer")
    /\ \E fault \in BOOLEAN :
         IF fault THEN End("raised")
         ELSE pc' = "base_display" /\ UNCHANGED ended
    /\ NoDispatch /\ SessionFrame /\ UNCHANGED reached
    /\ UNCHANGED <<iter, base_name, sleeps, owed, faulted, afterFault>>

\* epd.display(base_buf)   (both mains)
s_base_display ==
    /\ Running("base_display")
    /\ UpdateIssued
    /\ \E fault \in BOOLEAN :
         IF fault THEN End("raised") /\ faulted' = TRUE /\ UNCHANGED reached
         ELSE /\ pc' = IF script = "test" THEN "input"
                       ELSE IF base_name THEN "base_set"
                       ELSE IF part_name THEN "r_getbuffer" ELSE "n_getbuffer"
              /\ reached' = reached \cup {"base"}
              /\ UNCHANGED <<ended, faulted>>
    /\ NoDispatch /\ SessionFrame
    /\ UNCHANGED <<iter, base_name, sleeps, owed>>

---------------------------------------------------------------------------
\* probe: try: getattr(epd, base_name)(base_buf) except Exception: base_name = None
p_base_set ==
    /\ Running("base_set")
    /\ \E fault \in BOOLEAN : base_name' = ~fault
    /\ pc' = IF part_name THEN "r_getbuffer" ELSE "n_getbuffer"
    /\ NoDispatch /\ SessionFrame /\ UNCHANGED reached
    /\ UNCHANGED <<iter, ended, sleeps, owed, faulted, afterFault>>

\* probe, no partial method: for flip in (False, True): epd.getbuffer(img)
p_nopart_getbuffer ==
    /\ Running("n_getbuffer")
    /\ \E fault \in BOOLEAN :
         IF fault THEN End("raised")
         ELSE pc' = "n_display" /\ UNCHANGED ended
    /\ NoDispatch /\ SessionFrame /\ UNCHANGED reached
    /\ UNCHANGED <<iter, base_name, sleeps, owed, faulted, afterFault>>

\* probe, no partial method: epd.display(...) of the frame; after the second
\* frame main goes on to epd.sleep()
p_nopart_display ==
    /\ Running("n_display")
    /\ UpdateIssued
    /\ \E fault \in BOOLEAN :
         IF fault THEN End("raised") /\ faulted' = TRUE /\ UNCHANGED iter
         ELSE /\ iter' = iter + 1
              /\ pc' = IF iter + 1 = 2 THEN "sleep" ELSE "n_getbuffer"
              /\ UNCHANGED <<ended, faulted>>
    /\ NoDispatch /\ SessionFrame /\ UNCHANGED reached
    /\ UNCHANGED <<base_name, sleeps, owed>>

\* probe, region loop: fullbuf = epd.getbuffer(img); an exception is caught
\* by `except Exception` around the loop and main goes on to the next test
p_region_getbuffer ==
    /\ Running("r_getbuffer")
    /\ \E fault \in BOOLEAN :
         IF fault THEN pc' = "f_getbuffer" /\ iter' = 0
         ELSE pc' = "r_dispatch" /\ UNCHANGED iter
    /\ NoDispatch /\ SessionFrame /\ UNCHANGED reached
    /\ UNCHANGED <<base_name, ended, sleeps, owed, faulted, afterFault>>

\* the outcome of one dispatch inside main: the calls made are updates; a
\* dispatch that returns False leaves the frame without an update
DispatchInMain(name, res) ==
    /\ pname' = dname /\ pcalls' = dcalls /\ pret' = dret
    /\ dname' = name /\ dcalls' = res.calls /\ dret' = res.ret
    /\ UpdateIssued
    /\ faulted' = (faulted \/ res.ret = "raised")
    /\ owed' = (owed \/ res.ret = "False")

\* probe, region loop: ok = call_partial_window(...); `if not ok: break`
p_region_dispatch ==
    /\ Running("r_dispatch")
    /\ \E fault \in BOOLEAN :
         LET res == RunTries(WindowTries("list", rect[1], rect[2], rect[3], rect[4]),
                             accepts, fault, <<>>)
         IN /\ DispatchInMain("call_partial_window", res)
            /\ IF res.ret = "True" /\ iter + 1 < 4
               THEN pc' = "r_getbuffer" /\ iter' = iter + 1
               ELSE pc' = "f_getbuffer" /\ iter' = 0
    /\ SessionFrame /\ UNCHANGED reached
    /\ UNCHANGED <<base_name, ended, sleeps>>

\* probe, full-window loop: fullbuf = epd.getbuffer(img)
p_fullwin_getbuffer ==
    /\ Running("f_getbuffer")
    /\ \E fault \in BOOLEAN :
         IF fault THEN pc' = "sleep" /\ iter' = 0
         ELSE pc' = "f_dispatch" /\ UNCHANGED iter
    /\ NoDispatch /\ SessionFrame /\ UNCHANGED reached
    /\ UNCHANGED <<base_name, ended, sleeps, owed, faulted, afterFault>>

\* probe, full-window loop: ok = call_partial_fullframe(...)
p_fullwin_dispatch ==
    /\ Running("f_dispatch")
    /\ \E fault \in BOOLEAN :
         LET res == RunTries(FullframeTries(W, H), accepts, fault, <<>>)
         IN /\ DispatchInMain("call_partial_fullframe", res)
            /\ IF res.ret = "True" /\ iter + 1 < 4
               THEN pc' = "f_getbuffer" /\ iter' = iter + 1
               ELSE pc' = "sleep" /\ iter' = 0
    /\ SessionFrame /\ UNCHANGED reached
    /\ UNCHANGED <<base_name, ended, sleeps>>

\* probe: epd.sleep() at the end of main
p_sleep ==
    /\ Running("sleep") /\ script = "probe"
    /\ \E fault \in BOOLEAN : CallSleep(fault)
    /\ NoDispatch /\ SessionFrame /\ UNCHANGED reached
    /\ UNCHANGED <<iter, base_name, owed, faulted, afterFault>>

---------------------------------------------------------------------------
\* test: user_input = get_user_input(): a line to render, or None at end of
\* input (break, then the finally block of main).  An empty line makes no
\* driver call and leaves the session where it is.
t_input ==
    /\ Running("input")
    /\ \/ iter < MaxLines /\ pc' = "t_getbuffer"
       \/ pc' = "sleep"
    /\ NoDispatch /\ SessionFrame /\ UNCHANGED reached
    /\ UNCHANGED <<iter, base_name, ended, sleeps, owed, faulted, afterFault>>

\* test, display_line_with_partial: fullbuf = epd.getbuffer(img); an
\* exception is caught by live_word_processor, which reads the next line
t_getbuffer ==
    /\ Running("t_getbuffer")
    /\ \E fault \in BOOLEAN :
         pc' = IF fault THEN "input" ELSE "t_partial"
    /\ iter' = iter + 1
    /\ NoDispatch /\ SessionFrame /\ UNCHANGED reached
    /\ UNCHANGED <<base_name, ended, sleeps, owed, faulted, afterFault>>

\* test, display_line_with_partial: epd.display_Partial(region_bytes, x0, y0,
\* x1, y1) inside try / except Exception
t_partial ==
    /\ Running("t_partial")
    /\ UpdateIssued
    /\ \E fault \in BOOLEAN :
         LET out == IF ~part_name THEN "AttributeError"
                    ELSE CallFn(accepts, CallArgs("region", "list", rect), fault)
         IN /\ pc' = IF out = "ok" THEN "input" ELSE "t_fallback"
            /\ faulted' = (faulted \/ out = "fault")
            /\ owed' = (owed \/ out \in {"TypeError", "AttributeError"})
    /\ NoDispatch /\ SessionFrame /\ UNCHANGED reached
    /\ UNCHANGED <<iter, base_name, ended, sleeps>>

\* test, display_line_with_partial: the fallback epd.display(fullbuf) in the
\* except branch; its exception is caught by live_word_processor
t_fallback ==
    /\ Running("t_fallback")
    /\ UpdateIssued
    /\ owed' = FALSE
    /\ \E fault \in BOOLEAN : faulted' = (faulted \/ fault)
    /\ pc' = "input"
    /\ NoDispatch /\ SessionFrame /\ UNCHANGED reached
    /\ UNCHANGED <<iter, base_name, ended, sleeps>>

\* test: the finally block of main: epd.sleep()
t_sleep ==
    /\ Running("sleep") /\ script = "test"
    /\ \E fault \in BOOLEAN : CallSleep(fault)
    /\ NoDispatch /\ SessionFrame /\ UNCHANGED reached
    /\ UNCHANGED <<iter, base_name, owed, faulted, afterFault>>

\* KeyboardInterrupt between two driver calls.  probe: nothing in main
\* catches it.  test: live_word_processor breaks out of its loop and main
\* runs its finally block; outside the loop nothing catches it.
s_interrupt ==
    /\ ended = "running"
    /\ IF script = "test" /\ pc \in {"input", "t_getbuffer", "t_partial", "t_fallback"}
       THEN pc' = "sleep" /\ UNCHANGED ended
       ELSE End("interrupted")
    /\ NoDispatch /\ SessionFrame /\ UNCHANGED reached
    /\ UNCHANGED <<iter, base_name, sleeps, owed, faulted, afterFault>>

---------------------------------------------------------------------------
\* C8: a frame whose partial attempt was rejected gets a full display()
\* before the session ends: a main that runs to its end owes no redraw.
C8_FailedPartialGetsFullRedraw ==
    ended = "returned" => ~owed

\* C9: every session that started initialising the driver calls epd.sleep()
\* exactly once before it ends, whatever raised on the way.
C9_SleepExactlyOnce ==
    (script # "none" /\ ended # "running") => sleeps = 1

\* C10: after a hardware fault of an update no further display or partial
\* call is issued; the session calls sleep() and ends by re-raising.
C10_FaultEndsUpdates ==
    faulted =>
        /\ ~afterFault
        /\ ended # "running" => (ended = "raised" /\ sleeps = 1)

---------------------------------------------------------------------------
(***************************************************************************)
(* Part 4: the alignment helpers and the region extractor                  *)
(* (partial_probe_v2.py, partial_test.py).  Python's x % 8 is never        *)
(* negative and x // 8 rounds towards minus infinity; so do % and \div.    *)
(***************************************************************************)
MaxX == 17

\* x - x rem 8 with a remainder that takes the sign of x
align8_truncating(x) ==
    x - (IF x >= 0 THEN x % 8 ELSE 0 - ((0 - x) % 8))

align8(x) == x - (x % 8)

\* the next multiple of 8, also when x is one already
up8_alwaysAdd(x) == x + (8 - (x % 8))

up8(x) == IF x % 8 = 0 THEN x ELSE x + (8 - (x % 8))

\* s[a:b] takes an index below zero from the end and clamps both to the length
PyIndex(n, i) ==
    IF i < 0 THEN (IF i + n < 0 THEN 0 ELSE i + n)
             ELSE (IF i > n THEN n ELSE i)

PySlice(s, a, b) ==
    LET lo == PyIndex(Len(s), a)
        hi == PyIndex(Len(s), b)
    IN IF lo >= hi THEN <<>> ELSE SubSeq(s, lo + 1, hi)

\* seg of each row y0 .. y1 - 1:
\* fullbuf[row_start + xbyte : row_start + xbyte + region_bytes_per_row]
RowSegs(buf, bytes_per_row, xbyte, region_bytes_per_row, y0, y1) ==
    [i \in 1..(y1 - y0) |->
        LET row_start == (y0 + i - 1) * bytes_per_row
        IN PySlice(buf, row_start + xbyte,
                   row_start + xbyte + region_bytes_per_row)]

\* segs[lo] \o ... \o segs[hi], split in halves
RECURSIVE Concat(_, _, _)
Concat(segs, lo, hi) ==
    IF lo > hi THEN <<>>
    ELSE IF lo = hi THEN segs[lo]
    ELSE LET mid == (lo + hi) \div 2
         IN Concat(segs, lo, mid) \o Concat(segs, mid + 1, hi)

\* the rows come out bottom to top
ExtractRows_bottomUp(buf, bytes_per_row, xbyte, region_bytes_per_row, y0, y1) ==
    LET segs == RowSegs(buf, bytes_per_row, xbyte, region_bytes_per_row, y0, y1)
    IN Concat([i \in 1..(y1 - y0) |-> segs[y1 - y0 + 1 - i]], 1, y1 - y0)

\* out = []; for y in range(y0, y1): out.extend(seg)
ExtractRows(buf, bytes_per_row, xbyte, region_bytes_per_row, y0, y1) ==
    Concat(RowSegs(buf, bytes_per_row, xbyte, region_bytes_per_row, y0, y1),
           1, y1 - y0)

\* the loop starts one row late
extract_region_bytes_fromNextRow(buf, full_width, x0, y0, x1, y1) ==
    ExtractRows(buf, full_width \div 8, x0 \div 8, (x1 - x0) \div 8,
                y0 + 1, y1)

\* every row is taken from the left edge of the frame
extract_region_bytes_noXbyte(buf, full_width, x0, y0, x1, y1) ==
    ExtractRows(buf, full_width \div 8, 0, (x1 - x0) \div 8, y0, y1)

extract_region_bytes(buf, full_width, x0, y0, x1, y1) ==
    ExtractRows(buf, full_width \div 8, x0 \div 8, (x1 - x0) \div 8,
                y0, y1)

\* --- the inputs ---
XGeoms == {<<8, 1>>, <<16, 2>>, <<24, 3>>}

\* getbuffer's frame of a w x h panel; byte k holds (k0 + k) mod 256
FrameOf(w, h, k0) == [k \in 1..((w \div 8) * h) |-> (k0 + k) % 256]

Frames(w, h) == {FrameOf(w, h, 0), FrameOf(w, h, 100)}

\* boxes in and around a w x h panel, 8-aligned or not
Boxes(w, h) ==
    LET XS == {x \in 0..(w + 8) : x % 8 \in {0, 3, 5}}
        YS == 0..(h + 1)
    IN {r \in XS \X YS \X XS \X YS : r[1] < r[3] /\ r[2] < r[4]}

\* the 7.5" V2 panel and the box main redraws on it
ScenarioGeom == <<640, 384>>

ScenarioBoxes == {<<200, 120, 440, 200>>, <<203, 120, 437, 200>>}

NoHelp == [align8 |-> 0, up8 |-> 0, align8_align8 |-> 0, up8_up8 |-> 0,
           up8_align8 |-> 0]

IdleExtract ==
    /\ fullbuf = <<>> /\ raw_box = <<0, 0, 0, 0>> /\ region_bytes = <<>>
    /\ xstep = "idle" /\ xarg = 0 /\ xres = NoHelp

\* a frame and a box are at hand
InitBox ==
    /\ \/ /\ \E g \in XGeoms : W = g[1] /\ H = g[2]
          /\ fullbuf \in Frames(W, H)
          /\ raw_box \in Boxes(W, H)
       \/ /\ W = ScenarioGeom[1] /\ H = ScenarioGeom[2]
          /\ fullbuf = FrameOf(W, H, 0)
          /\ raw_box \in ScenarioBoxes
    /\ rect = raw_box
    /\ region_bytes = <<>>
    /\ xstep = "input" /\ xarg = 0 /\ xres = NoHelp

\* an integer is at hand
InitHelper ==
    /\ W = 0 /\ H = 0 /\ rect = <<0, 0, 0, 0>>
    /\ fullbuf = <<>> /\ raw_box = <<0, 0, 0, 0>> /\ region_bytes = <<>>
    /\ xstep = "helper" /\ xarg \in (0 - MaxX)..MaxX /\ xres = NoHelp

InitExtract ==
    /\ InitBox \/ InitHelper
    /\ rep = "list" /\ accepts = {}
    /\ dname = "none" /\ dcalls = <<>> /\ dret = "none"
    /\ pname = "none" /\ pcalls = <<>> /\ pret = "none"

ExtractFrame ==
    UNCHANGED <<bvars, svars, W, H, rep, accepts, uvars, mvars,
                dname, dcalls, dret, pname, pcalls, pret, fullbuf, raw_box>>

\* x0 = align8(x0); x1 = up8(x1)
align_box ==
    /\ xstep = "input"
    /\ rect' = <<align8(raw_box[1]), raw_box[2], up8(raw_box[3]), raw_box[4]>>
    /\ xstep' = "aligned"
    /\ UNCHANGED <<region_bytes, xarg, xres>>
    /\ ExtractFrame

\* region = extract_region_bytes(fullbuf, W, x0, y0, x1, y1); the function
\* has no raise statement and a slice never raises: it always returns
extract ==
    /\ xstep \in {"input", "aligned"}
    /\ region_bytes' = extract_region_bytes(fullbuf, W, rect[1], rect[2],
                                            rect[3], rect[4])
    /\ xstep' = "extracted"
    /\ UNCHANGED <<rect, xarg, xres>>
    /\ ExtractFrame

\* align8 and up8 applied to xarg and to their own results
apply_helpers ==
    /\ xstep = "helper"
    /\ xres' = [align8 |-> align8(xarg), up8 |-> up8(xarg),
                align8_align8 |-> align8(align8(xarg)),
                up8_up8 |-> up8(up8(xarg)),
                up8_align8 |-> up8(align8(xarg))]
    /\ xstep' = "helped"
    /\ UNCHANGED <<rect, region_bytes, xarg>>
    /\ ExtractFrame

\* Rect of the data model: 8-aligned x bounds, not empty, inside the panel
Aligned(r) == r[1] % 8 = 0 /\ r[3] % 8 = 0

ValidRect(r, w, h) ==
    /\ Aligned(r)
    /\ 0 <= r[1] /\ r[1] < r[3] /\ r[3] <= w
    /\ 0 <= r[2] /\ r[2] < r[4] /\ r[4] <= h

RegionWidth(r) == (r[3] - r[1]) \div 8

RegionRows(r) == r[4] - r[2]

Extracted == xstep = "extracted"

\* C11: for a valid rectangle of a frame of (W / 8) * H bytes the extractor
\* returns exactly ((x1 - x0) / 8) * (y1 - y0) bytes.
C11_RegionLength ==
    (Extracted /\ ValidRect(rect, W, H) /\ Len(fullbuf) = (W \div 8) * H)
        => Len(region_bytes) = RegionWidth(rect) * RegionRows(rect)

C11_Witness ==
    /\ Extracted /\ ValidRect(rect, W, H)
    /\ rect[1] > 0 /\ RegionRows(rect) >= 2
    /\ Len(region_bytes) = RegionWidth(rect) * RegionRows(rect)
    /\ Len(region_bytes) < Len(fullbuf)

\* C12: the output of a valid rectangle is the row-major window of the
\* frame: output[r * ((x1 - x0) / 8) + c] is frame[(y0 + r) * (W / 8) +
\* x0 / 8 + c], rows top to bottom, and the frame is what it was.
C12_RowMajorWindow ==
    (Extracted /\ ValidRect(rect, W, H))
        => /\ \A r \in 0..(RegionRows(rect) - 1) :
              \A c \in 0..(RegionWidth(rect) - 1) :
                 /\ r * RegionWidth(rect) + c + 1 \in DOMAIN region_bytes
                 /\ region_bytes[r * RegionWidth(rect) + c + 1]
                      = fullbuf[(rect[2] + r) * (W \div 8)
                                + (rect[1] \div 8) + c + 1]
           /\ \E k0 \in {0, 100} : fullbuf = FrameOf(W, H, k0)

C12_Witness ==
    /\ Extracted /\ ValidRect(rect, W, H)
    /\ rect[1] > 0 /\ rect[3] < W /\ rect[2] > 0 /\ RegionRows(rect) >= 2
    /\ region_bytes = <<fullbuf[(rect[2] * (W \div 8)) + (rect[1] \div 8) + 1],
                        fullbuf[((rect[2] + 1) * (W \div 8))
                                + (rect[1] \div 8) + 1]>>

\* C13: for a rectangle with x0 or x1 off the 8-pixel grid the extraction
\* fails (MisalignedRegion): it does not return, and no bytes come out.
C13_MisalignedRejected ==
    ~Aligned(rect) => (~Extracted /\ region_bytes = <<>>)

\* C14: for a rectangle with y1 > H or x1 > W the extraction fails
\* (OutOfBounds); no output row holds bytes from outside its source row or
\* from beyond the frame, and no output row is shortened.
C14_OutOfBoundsRejected ==
    (Aligned(rect) /\ rect[1] >= 0 /\ rect[2] >= 0)
        => /\ (rect[3] > W \/ rect[4] > H) => ~Extracted
           /\ Extracted =>
                /\ Len(region_bytes) = RegionWidth(rect) * RegionRows(rect)
                /\ \A r \in 0..(RegionRows(rect) - 1) :
                   \A c \in 0..(RegionWidth(rect) - 1) :
                      LET k == (rect[2] + r) * (W \div 8)
                                + (rect[1] \div 8) + c
                      IN /\ k < Len(fullbuf)
                         /\ k < (rect[2] + r + 1) * (W \div 8)

\* C15: extracting the full-frame rectangle (0, 0, W, H) gives back the
\* frame, byte for byte.
C15_FullFrameRoundTrip ==
    (Extracted /\ rect = <<0, 0, W, H>> /\ Len(fullbuf) = (W \div 8) * H)
        => region_bytes = fullbuf

C15_Witness ==
    /\ Extracted /\ rect = <<0, 0, W, H>>
    /\ W >= 16 /\ H >= 2
    /\ region_bytes = fullbuf /\ Len(region_bytes) = (W \div 8) * H

\* C16: for every integer x, negative ones included, align8(x) is the
\* multiple of 8 with align8(x) <= x < align8(x) + 8 and up8(x) is the
\* smallest multiple of 8 that is >= x; both are idempotent, and
\* up8(align8(x)) = x exactly when x is a multiple of 8.
C16_AlignHelpers ==
    xstep = "helped"
        => /\ xres.align8 % 8 = 0
           /\ xres.align8 <= xarg /\ xarg < xres.align8 + 8
           /\ xres.up8 % 8 = 0 /\ xres.up8 >= xarg
           /\ \A m \in xarg..(xres.up8 - 1) : m % 8 # 0
           /\ xres.align8_align8 = xres.align8
           /\ xres.up8_up8 = xres.up8
           /\ (xres.up8_align8 = xarg) <=> (xarg % 8 = 0)

C16_Witness ==
    /\ xstep = "helped" /\ xarg < 0 /\ xarg % 8 # 0
    /\ xres.align8 < xarg /\ xarg < xres.up8
    /\ xres.up8 = xres.align8 + 8

\* C17: aligning a raw box (x0 down with align8, x1 up with up8, y as it
\* is) gives an 8-aligned rectangle that contains the box and, for a box
\* inside a panel whose width is a multiple of 8, stays inside the panel;
\* on the 640 x 384 panel the boxes (200,120,440,200) and (203,120,437,200)
\* both align to (200,120,440,200), whose extraction yields 2400 bytes.
C17_AlignedBoxContainsRaw ==
    /\ xstep = "aligned" =>
         /\ Aligned(rect)
         /\ rect[1] <= raw_box[1] /\ raw_box[3] <= rect[3]
         /\ rect[2] = raw_box[2] /\ rect[4] = raw_box[4]
         /\ (W % 8 = 0 /\ 0 <= raw_box[1] /\ raw_box[3] <= W
             /\ 0 <= raw_box[2] /\ raw_box[4] <= H)
               => (0 <= rect[1] /\ rect[3] <= W /\ 0 <= rect[2] /\ rect[4] <= H)
         /\ (<<W, H>> = ScenarioGeom /\ raw_box \in ScenarioBoxes)
               => rect = <<200, 120, 440, 200>>
    /\ (Extracted /\ <<W, H>> = ScenarioGeom /\ rect = <<200, 120, 440, 200>>)
         => Len(region_bytes) = 2400

C17_Witness ==
    /\ Extracted /\ <<W, H>> = ScenarioGeom
    /\ raw_box = <<203, 120, 437, 200>> /\ rect = <<200, 120, 440, 200>>
    /\ Len(region_bytes) = 2400

---------------------------------------------------------------------------
(***************************************************************************)
(* Part 5: the bus primitives of an initialised backend (epdconfig.py):    *)
(* spi_writebyte, spi_writebyte2, digital_write, digital_read.             *)
(***************************************************************************)
\* bytes handed to the write primitives in one run, and in one call
MaxBus == 3

MaxData == 2

Bytes == {0, 255}

DataArgs == UNION {[1..n -> Bytes] : n \in 1..MaxData}

\* list(data)
ListOf(data) == [i \in 1..Len(data) |-> data[i]]

\* what each primitive clocks out on MOSI for the argument data
RPi_spi_writebyte(data) == ListOf(data)

RPi_spi_writebyte2(data) == RPi_spi_writebyte(data)

\* SYSFS_software_spi_transfer(data[0])
Jetson_spi_writebyte(data) == <<data[1]>>

\* for i in range(len(data)): SYSFS_software_spi_transfer(data[i])
Jetson_spi_writebyte2(data) == [i \in 1..Len(data) |-> data[i]]

\* SPI.writebytes(data)
X3_spi_writebyte(data) == data

\* SPI.xfer3(data)
X3_spi_writebyte2(data) == data

\* the level GPIO.input finds on each channel: the level driven on an
\* output, the level the panel drives on BUSY
LineLevels ==
    [p \in Pins |-> IF pinMode[p] = "in" THEN busy_line ELSE pinLevel[p]]

RPi_digital_read(levels, pin) == levels[pin]

\* GPIO.input(self.BUSY_PIN)
Jetson_digital_read(levels, pin) == levels["BUSY"]

X3_digital_read(levels, pin) == levels[pin]

NoRead == [pin |-> NoPin, val |-> 0, on_pin |-> 0]

IdleBus == bus = <<>> /\ sent = <<>> /\ busy_line = 0 /\ rd = NoRead

\* the state module_init leaves when no hardware call raises
Constructed ==
    [mode |-> [p \in Pins |-> "unset"], level |-> [p \in Pins |-> 0],
     spi |-> FALSE, gpio_inited |-> FALSE, spi_inited |-> FALSE, Flag |-> 0,
     dev_spi |-> FALSE, log |-> <<>>, raised |-> FALSE]

Ready(b) ==
    CASE b = "RaspberryPi" -> RPi_module_init(Constructed, FALSE, FALSE, FALSE, {})
      [] b = "JetsonNano" -> Jetson_module_init(Constructed, {})
      [] b = "SunriseX3" -> X3_module_init(Constructed, {})

\* module_init() has returned 0
InitBus ==
    /\ backend \in Backends
    /\ pinMode = Ready(backend).mode
    /\ pinLevel = Ready(backend).level
    /\ spiOpen = Ready(backend).spi
    /\ gpio_inited = Ready(backend).gpio_inited
    /\ spi_inited = Ready(backend).spi_inited
    /\ Flag = Ready(backend).Flag
    /\ DEV_SPI = Ready(backend).dev_spi
    /\ hwlog = Ready(backend).log
    /\ lastCall = [name |-> "module_init", cleanup |-> FALSE, ret |-> "ok",
                   io |-> FALSE]
    /\ prevCall = NoCall
    /\ prev2Init = FALSE
    /\ bus = <<>> /\ sent = <<>> /\ busy_line \in {0, 1} /\ rd = NoRead

BusFrame ==
    UNCHANGED <<backend, pinMode, spiOpen, gpio_inited, spi_inited, Flag,
                DEV_SPI, hwlog, lastCall, prevCall, prev2Init,
                dvars, svars, xvars, mvars>>

Written(data, out) ==
    /\ Len(sent) + Len(data) <= MaxBus
    /\ bus' = bus \o out
    /\ sent' = sent \o data
    /\ UNCHANGED <<pinLevel, busy_line, rd>>
    /\ BusFrame

spi_writebyte ==
    /\ spiOpen
    /\ \E data \in DataArgs :
        \/ backend = "RaspberryPi" /\ Written(data, RPi_spi_writebyte(data))
        \/ backend = "JetsonNano" /\ Written(data, Jetson_spi_writebyte(data))
        \/ backend = "SunriseX3" /\ Written(data, X3_spi_writebyte(data))

spi_writebyte2 ==
    /\ spiOpen
    /\ \E data \in DataArgs :
        \/ backend = "RaspberryPi" /\ Written(data, RPi_spi_writebyte2(data))
        \/ backend = "JetsonNano" /\ Written(data, Jetson_spi_writebyte2(data))
        \/ backend = "SunriseX3" /\ Written(data, X3_spi_writebyte2(data))

\* GPIO.output(pin, value) on a channel set up as an output
digital_write ==
    \E p \in Pins, v \in {0, 1} :
        /\ pinMode[p] = "out"
        /\ pinLevel' = [pinLevel EXCEPT ![p] = v]
        /\ UNCHANGED <<bus, sent, busy_line, rd>>
        /\ BusFrame

Read(pin, val) ==
    /\ rd' = [pin |-> pin, val |-> val, on_pin |-> LineLevels[pin]]
    /\ UNCHANGED <<bus, sent, busy_line, pinLevel>>
    /\ BusFrame

digital_read ==
    \E pin \in Pins :
        /\ pinMode[pin] # "unset"
        /\ \/ backend = "RaspberryPi"
              /\ Read(pin, RPi_digital_read(LineLevels, pin))
           \/ backend = "JetsonNano"
              /\ Read(pin, Jetson_digital_read(LineLevels, pin))
           \/ backend = "SunriseX3"
              /\ Read(pin, X3_digital_read(LineLevels, pin))

\* the panel raises or lowers BUSY
panel_busy ==
    /\ busy_line' = 1 - busy_line
    /\ UNCHANGED <<bus, sent, pinLevel, rd>>
    /\ BusFrame

\* C18: in every backend spi_writebyte(data) and spi_writebyte2(data) put
\* every byte of data on the bus exactly once and in order: the bytes on the
\* bus are the concatenation of the arguments of the calls so far.
C18_BusCarriesEveryByte == bus = sent

\* C19: in every backend digital_read(pin) returns the raw level of the pin
\* it is given, BUSY included, without inversion.
C19_ReadsThePinPassed == rd.pin # NoPin => rd.val = rd.on_pin

---------------------------------------------------------------------------
(***************************************************************************)
(* Part 6: the platform selection at the end of epdconfig.py, run when the *)
(* module is imported.                                                     *)
(***************************************************************************)
\* the gpio-x3 driver is looked for first
Select_x3First(cpu, x3) ==
    IF x3 THEN "SunriseX3"
    ELSE IF cpu THEN "RaspberryPi"
    ELSE "JetsonNano"

\* cpu: "Raspberry" in output; x3: os.path.exists(.../gpio-x3)
Select(cpu, x3) ==
    IF cpu THEN "RaspberryPi"
    ELSE IF x3 THEN "SunriseX3"
    ELSE "JetsonNano"

\* the functions of dir(implementation) the drivers call
Primitives ==
    {"digital_write", "digital_read", "delay_ms", "spi_writebyte",
     "spi_writebyte2", "module_init", "module_exit"}

\* for func in dir(implementation): setattr(module, func, getattr(...))
BindAll(b) == [n \in Primitives |-> b]

\* the exceptions the constructor of a class raises when what it needs is
\* not installed: a failed import of the GPIO / SPI library in the three
\* classes; RuntimeError('Cannot find sysfs_software_spi.so') in JetsonNano
CtorErrors(b) ==
    IF b = "JetsonNano" THEN {"RuntimeError", "ImportError"}
    ELSE {"ImportError"}

\* the module has been imported and `implementation` is an instance of
\* backend
AfterImport ==
    /\ cpuinfo_raspberry = (backend = "RaspberryPi")
    /\ gpio_x3_exists = (backend = "SunriseX3")
    /\ ctor_ok = TRUE
    /\ imports = 1
    /\ import_exc = "none"
    /\ bound = BindAll(backend)

\* the process starts; epdconfig is not imported yet
InitSelect ==
    /\ backend = "none"
    /\ pinMode = [p \in Pins |-> "unset"]
    /\ pinLevel = [p \in Pins |-> 0]
    /\ spiOpen = FALSE
    /\ gpio_inited = FALSE
    /\ spi_inited = FALSE
    /\ Flag = 0
    /\ DEV_SPI = FALSE
    /\ hwlog = <<>>
    /\ lastCall = NoCall
    /\ prevCall = NoCall
    /\ prev2Init = FALSE
    /\ cpuinfo_raspberry \in BOOLEAN
    /\ gpio_x3_exists \in BOOLEAN
    /\ ctor_ok \in BOOLEAN
    /\ imports = 0
    /\ import_exc = "none"
    /\ bound = BindAll("none")

\* import epdconfig: the module body runs unless the module is loaded
\* already; when the constructor of the chosen class raises, the import
\* fails and nothing is bound
import_epdconfig ==
    /\ imports = 0
    /\ IF ctor_ok
       THEN /\ backend' = Select(cpuinfo_raspberry, gpio_x3_exists)
            /\ bound' = BindAll(backend')
            /\ imports' = imports + 1
            /\ import_exc' = "none"
       ELSE /\ import_exc' \in
                 CtorErrors(Select(cpuinfo_raspberry, gpio_x3_exists))
            /\ UNCHANGED <<backend, bound, imports>>
    /\ UNCHANGED <<pinMode, pinLevel, spiOpen, gpio_inited, spi_inited, Flag,
                   DEV_SPI, hwlog, lastCall, prevCall, prev2Init,
                   cpuinfo_raspberry, gpio_x3_exists, ctor_ok,
                   dvars, svars, xvars, uvars>>

\* epdconfig.module_init() / epdconfig.module_exit() through the names bound
\* at import; at most one hardware call raises in a call
bound_module_init ==
    /\ bound["module_init"] \in Backends
    /\ InitCall(UpTo(InitOps(bound["module_init"]), 1))

bound_module_exit ==
    /\ bound["module_exit"] \in Backends
    /\ ExitCall(UpTo(ExitOps(bound["module_exit"]), 1))

\* C20: the selection binds one backend instance, once per process:
\* RaspberryPi when the CPU identification contains "Raspberry", otherwise
\* SunriseX3 when the gpio-x3 driver path exists, otherwise JetsonNano; every
\* public primitive of the module is bound to that instance, and no later
\* module_init or module_exit changes which instance is bound.
C20_OneBackendBound ==
    /\ imports <= 1
    /\ imports = 1 =>
         /\ cpuinfo_raspberry => backend = "RaspberryPi"
         /\ (~cpuinfo_raspberry /\ gpio_x3_exists) => backend = "SunriseX3"
         /\ (~cpuinfo_raspberry /\ ~gpio_x3_exists) => backend = "JetsonNano"
         /\ \A n \in Primitives : bound[n] = backend
    /\ imports = 0 =>
         (backend = "none" /\ \A n \in Primitives : bound[n] = "none")

C20_Witness ==
    /\ imports = 1
    /\ cpuinfo_raspberry /\ gpio_x3_exists /\ backend = "RaspberryPi"
    /\ prevCall.name = "module_init" /\ lastCall.name = "module_exit"
    /\ \A n \in Primitives : bound[n] = "RaspberryPi"

\* C21: when the native SPI / GPIO capability or the shared object a backend
\* needs cannot be located, construction fails with the distinct error kind
\* BackendUnavailable, which a caller can tell from a generic runtime error,
\* and no backend instance is left bound.
C21_UnavailableIsDistinct ==
    import_exc # "none" =>
        /\ import_exc = "BackendUnavailable"
        /\ backend = "none"
        /\ \A n \in Primitives : bound[n] = "none"

\* C25: within one dispatch of call_partial_window as the probe uses it
\* (the payload is the list extract_region_bytes returned) the third call
\* shape passes the payload in another sequence representation than the
\* first: the entry point is never called twice in a dispatch with arguments
\* of the same representation and value.
C25_NoIdenticalRetry ==
    (dname = "call_partial_window" /\ rep = "list") =>
        \A i \in 1..Len(dcalls) : \A j \in 1..Len(dcalls) :
            i # j => dcalls[i].args # dcalls[j].args

\* where main is about to call Clear, getbuffer, display or a partial entry
\* point, and where it is about to call a partial entry point
AfterInitCalls ==
    {"Clear", "base_getbuffer", "base_display", "base_set",
     "n_getbuffer", "n_display", "r_getbuffer", "r_dispatch",
     "f_getbuffer", "f_dispatch", "t_getbuffer", "t_partial", "t_fallback"}

PartialCalls == {"r_dispatch", "f_dispatch", "t_partial"}

\* C26: in every run of main (both scripts) init_fast() / init() completes
\* before any Clear, getbuffer, display or partial-update call; a full
\* display() of the base image completes before the first partial-update
\* call; after sleep() has been called no driver call is issued.
C26_DriverCallOrder ==
    /\ (ended = "running" /\ pc \in AfterInitCalls) => "init" \in reached
    /\ (ended = "running" /\ pc \in PartialCalls) => "base" \in reached
    /\ (dname # "none" \/ pname # "none") => "base" \in reached
    /\ sleeps >= 1 => (ended # "running" /\ pc = "done")
    /\ sleeps <= 1

C26_Witness ==
    /\ script = "probe" /\ ended = "returned" /\ sleeps = 1
    /\ reached = {"init", "base"}
    /\ dname = "call_partial_fullframe" /\ pname = "call_partial_window"

\* READY: the five pins are configured, the SPI bus is open, PWR is HIGH
Ready_state ==
    /\ \A p \in Pins \ {"BUSY"} : pinMode[p] = "out"
    /\ pinMode["BUSY"] = "in"
    /\ spiOpen
    /\ pinLevel["PWR"] = 1

\* C22: in every backend, after any sequence of module_init / module_exit
\* calls in which hardware calls may fail, a module_init that returns 0
\* leaves the backend READY; a module_init that follows one which raised
\* part-way never reports success while the SPI bus is unopened.
C22_SuccessMeansReady ==
    InitReturned(lastCall) => Ready_state

\* the exception of the last call came from the SPI open / begin, or from
\* `raise RuntimeError` (no hardware call failed)
RaisedAtSpiOrSo ==
    \/ Failed(OpSpiOpen)
    \/ \A i \in 1..Len(hwlog) : hwlog[i].out = "ok"

\* C23: in every backend, when module_init on an uninitialised backend
\* raises because the SPI open / begin fails or the shared object is
\* missing, PWR_PIN is not HIGH when the exception leaves module_init.
C23_FailedInitLeavesPowerOff ==
    (lastCall.name = "module_init" /\ lastCall.ret = "raised"
     /\ prevCall = NoCall /\ RaisedAtSpiOrSo)
        => pinLevel["PWR"] # 1

\* module_init() / module_exit() in which no hardware call raises
quiet_module_init == InitCall({{}})

quiet_module_exit == ExitCall({{}})

\* the initialisation flag of the backend: _spi_inited, resp. Flag
InitFlag == IF backend = "RaspberryPi" THEN spi_inited ELSE Flag = 1

Returned(c, name) == c.name = name /\ c.ret = "ok"

\* one call of a failure-free run of RaspberryPi or SunriseX3
ReentryStep ==
    backend \in {"RaspberryPi", "SunriseX3"} =>
        /\ InitFlag' <=> spiOpen'
        /\ (\E i \in 1..Len(hwlog') : hwlog'[i].op = OpSpiOpen) => ~spiOpen
        /\ (Returned(lastCall, "module_exit") /\ Returned(lastCall', "module_init"))
             => /\ \E i \in 1..Len(hwlog') :
                      hwlog'[i].op = OpSpiOpen /\ hwlog'[i].out = "ok"
                /\ spiOpen'
                /\ pinLevel'["PWR"] = 1

\* C24: the session goes UNINIT -> READY -> CLOSED and can be re-entered:
\* for RaspberryPi and SunriseX3, along any failure-free sequence of
\* module_init / module_exit calls the initialisation flag (_spi_inited,
\* resp. Flag) is set exactly when the SPI handle is open, SPI open is never
\* issued on an open handle, and a module_init that follows a module_exit
\* opens the SPI bus again and drives PWR_PIN HIGH again.
C24_SessionReentry == [][ReentryStep]_vars

C24_Witness ==
    /\ backend = "SunriseX3"
    /\ prev2Init /\ Returned(prevCall, "module_exit")
    /\ Returned(lastCall, "module_init")
    /\ Succeeded(OpSpiOpen) /\ spiOpen /\ Flag = 1 /\ pinLevel["PWR"] = 1

---------------------------------------------------------------------------
Init ==
    /\ InitBackend /\ IdleDispatch /\ IdleSession /\ IdleExtract
    /\ IdleBus /\ AfterImport

Next == module_init \/ module_exit

Spec == Init /\ [][Next]_vars

InitD ==
    /\ InitBackend /\ backend = "RaspberryPi"
    /\ InitDispatch /\ IdleSession /\ IdleExtract
    /\ IdleBus /\ AfterImport

NextD == call_partial_window \/ call_partial_fullframe

SpecDispatch == InitD /\ [][NextD]_vars

\* in both mains the region bytes are built as a list
InitS ==
    /\ InitBackend /\ backend = "RaspberryPi"
    /\ InitDispatch /\ rep = "list"
    /\ InitSession /\ IdleExtract
    /\ IdleBus /\ AfterImport

NextS ==
    \/ s_init \/ s_Clear \/ s_base_getbuffer \/ s_base_display
    \/ p_base_set \/ p_nopart_getbuffer \/ p_nopart_display
    \/ p_region_getbuffer \/ p_region_dispatch
    \/ p_fullwin_getbuffer \/ p_fullwin_dispatch \/ p_sleep
    \/ t_input \/ t_getbuffer \/ t_partial \/ t_fallback \/ t_sleep
    \/ s_interrupt

SpecSession == InitS /\ [][NextS]_vars

InitX ==
    /\ InitBackend /\ backend = "RaspberryPi"
    /\ IdleSession /\ InitExtract
    /\ IdleBus /\ AfterImport

NextX == align_box \/ extract \/ apply_helpers

SpecExtract == InitX /\ [][NextX]_vars

InitB ==
    /\ InitBus /\ AfterImport
    /\ IdleDispatch /\ IdleSession /\ IdleExtract

NextB ==
    \/ spi_writebyte \/ spi_writebyte2
    \/ digital_write \/ digital_read \/ panel_busy

SpecBus == InitB /\ [][NextB]_vars

InitM ==
    /\ InitSelect
    /\ IdleDispatch /\ IdleSession /\ IdleExtract /\ IdleBus

NextM == import_epdconfig \/ bound_module_init \/ bound_module_exit

SpecSelect == InitM /\ [][NextM]_vars

NextQ == quiet_module_init \/ quiet_module_exit

SpecReentry == Init /\ [][NextQ]_vars

====
